---------------------------- MODULE Spec2Model ----------------------------
(***************************************************************************)
(* Model of the Servers class of the 360 Monitoring command line client:   *)
(*   src/cli360monitoring/lib/servers.py  (current implementation, "cli")  *)
(*   src/lib/servers.py                   (older implementation,   "lib")  *)
(* One Servers object is modelled together with the remote API it talks    *)
(* to.  Python values are modelled as follows:                             *)
(*   None            the empty tuple << >>, a cached list L as <<L>>       *)
(*   dict            a TLA+ record; "k in d" is  k \in DOMAIN d            *)
(*   str             a TLA+ string                                         *)
(*   float           a binary64 value kept exactly (see FDiv)               *)
(*   exception       the exception's name in the result                    *)
(***************************************************************************)
EXTENDS Integers, Sequences, FiniteSets, TLC

VARIABLES impl, config, remote, servers, format,
          sum_cpu_usage, sum_mem_usage, sum_disk_usage, num_servers,
          pc, idx, args, rows, reqs, out, ret, op

vars == <<impl, config, remote, servers, format,
          sum_cpu_usage, sum_mem_usage, sum_disk_usage, num_servers,
          pc, idx, args, rows, reqs, out, ret, op>>

---------------------------------------------------------------------------
(* Bounds of the model.                                                    *)

\* longest server list the API answers with
MaxServers == 2

\* a binary64 significand: a leading 1 and Digits digits of DigitBits bits
DigitBits == 13
Digits == 4
DigitBase == 2^DigitBits

---------------------------------------------------------------------------
(* Python values.                                                          *)

None == << >>
Some(x) == <<x>>

EmptyDict == [k \in {} |-> 0]

\* the outcome of an expression: a value, or the exception it raised
Val(v) == [err |-> "", v |-> v]
Raise(e) == [err |-> e, v |-> 0]

\* d[k] of a dict: KeyError when the key is missing
GetItem(d, k) == IF k \in DOMAIN d THEN Val(d[k]) ELSE Raise("KeyError")

\* pattern in name, for two str
Contains(name, pattern) ==
    \E i \in 1..(Len(name) - Len(pattern) + 1) :
        SubSeq(name, i, i + Len(pattern) - 1) = pattern

\* tag in server['tags'], for a list of str
InList(x, lst) == \E i \in 1..Len(lst) : lst[i] = x

---------------------------------------------------------------------------
(* binary64 arithmetic.  A float x >= 0 is [z, d, e]: z whether it is      *)
(* zero; otherwise its 53 bit significand is a leading 1 followed by the   *)
(* 52 bits of d, four digits of 13 bits each, most significant first, and  *)
(* e is the exponent of the leading 1: x = (1 + d / 2^52) * 2^e.           *)

FZero == [z |-> TRUE, d |-> <<0, 0, 0, 0>>, e |-> 0]

\* least k >= 0 with a * 2^k >= b
RECURSIVE NormShift(_, _)
NormShift(a, b) == IF a >= b THEN 0 ELSE 1 + NormShift(2 * a, b)

\* the number of binary digits of an int n >= 0
RECURSIVE BitLen(_)
BitLen(n) == IF n = 0 THEN 0 ELSE 1 + BitLen(n \div 2)

\* n further digits of the quotient r / b (r < b < 2^18), and the remainder
RECURSIVE DivDigits(_, _, _)
DivDigits(r, b, n) ==
    IF n = 0 THEN [d |-> << >>, rem |-> r]
    ELSE LET rest == DivDigits((r * DigitBase) % b, b, n - 1)
         IN  [d |-> <<(r * DigitBase) \div b>> \o rest.d, rem |-> rest.rem]

\* d + 1 on the digits, and the carry out of the first digit
RECURSIVE IncDigits(_)
IncDigits(d) ==
    IF d = << >> THEN [d |-> << >>, carry |-> 1]
    ELSE LET n == Len(d)
         IN  IF d[n] < DigitBase - 1
             THEN [d |-> [d EXCEPT ![n] = d[n] + 1], carry |-> 0]
             ELSE LET up == IncDigits(SubSeq(d, 1, n - 1))
                  IN  [d |-> up.d \o <<0>>, carry |-> up.carry]

\* round to nearest, ties to even: d the digits kept, guard the first bit
\* dropped, sticky whether any later dropped bit is set.  A carry out of
\* the digits makes the significand 2, which is 1 with the next exponent.
RoundEven(d, e, guard, sticky) ==
    LET up == guard = 1 /\ (sticky \/ d[Len(d)] % 2 = 1)
        inc == IncDigits(d)
    IN  IF ~up THEN [z |-> FALSE, d |-> d, e |-> e]
        ELSE IF inc.carry = 1 THEN [z |-> FALSE, d |-> inc.d, e |-> e + 1]
        ELSE [z |-> FALSE, d |-> inc.d, e |-> e]

\* a / b in Python for ints 0 <= a <= b, 0 < b < 2^18: the correctly
\* rounded binary64 quotient
FDiv(a, b) ==
    IF a = 0 THEN FZero
    ELSE LET k == NormShift(a, b)
             q == DivDigits(a * 2^k - b, b, Digits)
             guard == IF 2 * q.rem >= b THEN 1 ELSE 0
             sticky == 2 * q.rem - guard * b > 0
         IN  RoundEven(q.d, 0 - k, guard, sticky)

\* d[1..i] * c + carry: the digits and the carry out of the first digit
RECURSIVE MulDigits(_, _, _, _)
MulDigits(d, c, i, carry) ==
    IF i = 0 THEN [d |-> << >>, carry |-> carry]
    ELSE LET v == d[i] * c + carry
             rest == MulDigits(d, c, i - 1, v \div DigitBase)
         IN  [d |-> rest.d \o <<v % DigitBase>>, carry |-> rest.carry]

\* x * c in Python for a float x >= 0 and an int 0 < c < 2^13: the exact
\* product, its significand moved right by s bits to lead with a 1 again,
\* rounded to binary64
FMul(x, c) ==
    IF x.z THEN FZero
    ELSE LET p == MulDigits(x.d, c, Digits, 0)
             top == c + p.carry
             s == BitLen(top) - 1
             prev(i) == IF i = 1 THEN top - 2^s ELSE p.d[i - 1]
             nd == [i \in 1..Digits |->
                      (prev(i) % 2^s) * 2^(DigitBits - s) + (p.d[i] \div 2^s)]
             dropped == p.d[Digits] % 2^s
             guard == IF s = 0 THEN 0 ELSE dropped \div 2^(s - 1)
             sticky == s > 0 /\ dropped % 2^(s - 1) > 0
         IN  RoundEven(nd, x.e + s, guard, sticky)

\* a <= b for two digit sequences of the same length
DigitsLE(a, b) ==
    ~ \E i \in 1..Len(a) : /\ a[i] > b[i]
                           /\ \A j \in 1..(i - 1) : a[j] = b[j]

\* x <= float(n) for a float x >= 0 and an int 0 <= n < 2^13
FLessEq(x, n) ==
    IF x.z THEN TRUE
    ELSE IF n = 0 THEN FALSE
    ELSE LET L == BitLen(n) - 1
         IN  IF x.e < L THEN TRUE
             ELSE IF x.e > L THEN FALSE
             ELSE DigitsLE(x.d, <<(n - 2^L) * 2^(DigitBits - L), 0, 0, 0>>)

\* "{:.0f}".format(x) for a float 0 <= x < 2^13: x rounded to an integer,
\* ties to even
FormatF0(x) ==
    IF x.z \/ x.e < -1 THEN 0
    ELSE IF x.e = -1 THEN (IF x.d = <<0, 0, 0, 0>> THEN 0 ELSE 1)
    ELSE LET whole == 2^x.e + (x.d[1] \div 2^(DigitBits - x.e))
             frac == x.d[1] % 2^(DigitBits - x.e)
             guard == frac \div 2^(DigitBits - 1 - x.e)
             sticky == \/ frac % 2^(DigitBits - 1 - x.e) > 0
                       \/ \E i \in 2..Digits : x.d[i] > 0
         IN  IF guard = 1 /\ (sticky \/ whole % 2 = 1) THEN whole + 1 ELSE whole

\* free_disk_space / total_disk_space * 100
FreePercent(free, total) == FMul(FDiv(free, total), 100)

---------------------------------------------------------------------------
(* The inputs: what the API answers with, and the configuration.           *)

\* every field present, cpu usage exactly at the 80 % threshold
ServerA ==
    [id |-> "a1", name |-> "web-1", os |-> "linux", status |-> "active",
     agent_version |-> "1.0", connecting_ip |-> "10.0.0.1",
     ip_whois |-> [ip |-> "192.0.2.1", country |-> "DE", org |-> "hoster"],
     tags |-> <<"prod", "web">>,
     summary |-> [cpu_usage_percent |-> 80, mem_usage_percent |-> 30,
                  disk_usage_percent |-> 20],
     last_data |-> [uptime |-> [seconds |-> 60], cores |-> 2,
                    memory |-> [used |-> 1, free |-> 2, available |-> 2,
                                total |-> 3],
                    df |-> <<[mount |-> "/", free_bytes |-> 50,
                              used_bytes |-> 50]>>]]

\* no os, a partial ip_whois, and a disk with 11 of 20 bytes free: 55 %
ServerB ==
    [id |-> "b2", name |-> "web-2", status |-> "active",
     ip_whois |-> [ip |-> "192.0.2.2"],
     tags |-> <<"web">>,
     summary |-> [cpu_usage_percent |-> 10, mem_usage_percent |-> 10,
                  disk_usage_percent |-> 10],
     last_data |-> [df |-> <<[mount |-> "/", free_bytes |-> 11,
                              used_bytes |-> 9]>>]]

\* only the required fields; its id is a substring of the names above
ServerC == [id |-> "web", name |-> "db", last_data |-> EmptyDict]

\* a summary without cpu_usage_percent
ServerD ==
    [id |-> "d4", name |-> "db-2", os |-> "linux", tags |-> <<"prod">>,
     summary |-> [mem_usage_percent |-> 10, disk_usage_percent |-> 10],
     last_data |-> [df |-> << >>]]

\* a mount of size zero
ServerE ==
    [id |-> "e5", name |-> "tmp", os |-> "linux", tags |-> <<"web", "prod">>,
     summary |-> [cpu_usage_percent |-> 10, mem_usage_percent |-> 10,
                  disk_usage_percent |-> 10],
     last_data |-> [df |-> <<[mount |-> "/run", free_bytes |-> 0,
                              used_bytes |-> 0]>>]]

ServerPool == {ServerA, ServerB, ServerC, ServerD, ServerE}

\* the lists of at most MaxServers servers, no server twice
ServerLists ==
    UNION {{l \in [1..n -> ServerPool] :
               \A i, j \in 1..n : l[i] = l[j] => i = j} : n \in 0..MaxServers}

\* HTTP status codes of the API's answers
Statuses == {200, 500}

Formats == {"table", "csv", "json"}

\* the tag filters of list, the patterns and the tag lists of setTags
TagFilters == {<< >>, <<"web">>, <<"prod", "web">>, <<"web", "prod">>}
Patterns == {"", "web", "a1", "a"}
NewTags == {<< >>, <<"x", "y">>}

\* the Config object: the fields and methods the Servers class reads
Configs ==
    {c \in [readonly : BOOLEAN, headers : BOOLEAN,
            threshold_cpu_usage : {80}, threshold_mem_usage : {80},
            threshold_disk_usage : {80}, threshold_free_diskspace : {20, 55}] :
        ~c.headers => ~c.readonly /\ c.threshold_free_diskspace = 20}

\* the older class reads only the endpoint and the headers of its Config
LibConfig ==
    [readonly |-> FALSE, headers |-> TRUE,
     threshold_cpu_usage |-> 80, threshold_mem_usage |-> 80,
     threshold_disk_usage |-> 80, threshold_free_diskspace |-> 20]

NoArgs == [call |-> "none"]

\* True, False and None as they are returned
PyBool(b) == IF b THEN "True" ELSE "False"

\* the first exception of a sequence of outcomes, "" when there is none
FirstErr(steps) ==
    IF \A i \in 1..Len(steps) : steps[i].err = "" THEN ""
    ELSE LET i == CHOOSE i \in 1..Len(steps) :
                      /\ steps[i].err # ""
                      /\ \A j \in 1..(i - 1) : steps[j].err = ""
         IN  steps[i].err

\* what a request or a line of output is recorded as
Get(status) == [method |-> "GET", target |-> "servers", body |-> << >>,
                status |-> status]
Put(id, tags, status) == [method |-> "PUT", target |-> id, body |-> tags,
                          status |-> status]
Line(kind, v) == [kind |-> kind, v |-> v]

---------------------------------------------------------------------------
(* src/cli360monitoring/lib/servers.py: the methods.                       *)

\* fetchData without the check of the cache in line 32: every call sends
\* the GET (a variant the caching property has to tell from fetchData)
fetchDataNoCache(status) ==
    IF ~config.headers
    THEN [ret |-> FALSE, servers |-> servers, reqs |-> << >>, out |-> << >>]
    ELSE IF status = 200
    THEN [ret |-> TRUE, servers |-> Some(remote), reqs |-> <<Get(status)>>,
          out |-> << >>]
    ELSE [ret |-> FALSE, servers |-> None, reqs |-> <<Get(status)>>,
          out |-> <<Line("error", status)>>]

\* fetchData, the API answering the GET with `status`
fetchData(status) ==
    IF servers # None
    THEN [ret |-> TRUE, servers |-> servers, reqs |-> << >>, out |-> << >>]
    ELSE IF ~config.headers
    THEN [ret |-> FALSE, servers |-> servers, reqs |-> << >>, out |-> << >>]
    ELSE IF status = 200
    THEN [ret |-> TRUE, servers |-> Some(remote), reqs |-> <<Get(status)>>,
          out |-> << >>]
    ELSE [ret |-> FALSE, servers |-> None, reqs |-> <<Get(status)>>,
          out |-> <<Line("error", status)>>]

\* update without the check of config.readonly in lines 65-66 (a variant the
\* readonly property has to tell from update)
updateIgnoringReadonly(serverId, tags, status) ==
    IF status = 200
    THEN [ret |-> "True", reqs |-> <<Put(serverId, tags, status)>>,
          out |-> <<Line("updated", status)>>]
    ELSE [ret |-> "False", reqs |-> <<Put(serverId, tags, status)>>,
          out |-> <<Line("update_failed", status)>>]

\* update, the API answering the PUT with `status`
update(serverId, tags, status) ==
    IF config.readonly
    THEN [ret |-> "False", reqs |-> << >>, out |-> << >>]
    ELSE IF status = 200
    THEN [ret |-> "True", reqs |-> <<Put(serverId, tags, status)>>,
          out |-> <<Line("updated", status)>>]
    ELSE [ret |-> "False", reqs |-> <<Put(serverId, tags, status)>>,
          out |-> <<Line("update_failed", status)>>]

\* the condition of setTags' loop with the id matched by substring too (a
\* variant the no-match property has to tell from matchesPattern)
matchesPatternIdSubstring(server, pattern) ==
    Contains(server.id, pattern) \/ Contains(server.name, pattern)

\* the condition of setTags' loop
matchesPattern(server, pattern) ==
    pattern = server.id \/ Contains(server.name, pattern)

\* the index of the last server the pattern matches (a variant the
\* first-match property has to tell from firstMatch)
lastMatch(list, pattern) ==
    IF \E i \in 1..Len(list) : matchesPattern(list[i], pattern)
    THEN CHOOSE i \in 1..Len(list) :
             /\ matchesPattern(list[i], pattern)
             /\ \A j \in (i + 1)..Len(list) : ~matchesPattern(list[j], pattern)
    ELSE 0

\* the index setTags' loop returns at, 0 when it runs to its end
firstMatch(list, pattern) ==
    IF \E i \in 1..Len(list) : matchesPattern(list[i], pattern)
    THEN CHOOSE i \in 1..Len(list) :
             /\ matchesPattern(list[i], pattern)
             /\ \A j \in 1..(i - 1) : ~matchesPattern(list[j], pattern)
    ELSE 0

\* setTags, the API answering the GET with getStatus, the PUT with putStatus
setTags(pattern, tags, getStatus, putStatus) ==
    LET warn == <<Line("warn", 0)>>
        f == fetchData(getStatus)
    IN  IF pattern = "" \/ Len(tags) = 0
        THEN [ret |-> "None", servers |-> servers, reqs |-> << >>, out |-> warn]
        ELSE IF ~f.ret
        THEN [ret |-> "None", servers |-> f.servers, reqs |-> f.reqs,
              out |-> f.out \o warn]
        ELSE LET list == f.servers[1]
                 i == firstMatch(list, pattern)
                 u == update(list[i].id, tags, putStatus)
             IN  IF i = 0
                 THEN [ret |-> "None", servers |-> f.servers, reqs |-> f.reqs,
                       out |-> f.out \o warn]
                 ELSE [ret |-> u.ret, servers |-> f.servers,
                       reqs |-> f.reqs \o u.reqs, out |-> f.out \o u.out]

\* server['summary'][field] if 'summary' in server else 0
summaryField(server, field) ==
    IF "summary" \in DOMAIN server
    THEN GetItem(server.summary, field)
    ELSE Val(0)

\* the loop of hasIssue over last_data['df'], from mount i on
RECURSIVE dfHasIssue(_, _)
dfHasIssue(df, i) ==
    IF i > Len(df) THEN "False"
    ELSE LET free == GetItem(df[i], "free_bytes")
             used == GetItem(df[i], "used_bytes")
         IN  IF free.err # "" THEN free.err
             ELSE IF used.err # "" THEN used.err
             ELSE IF free.v + used.v = 0 THEN "ZeroDivisionError"
             ELSE IF FLessEq(FreePercent(free.v, free.v + used.v),
                             config.threshold_free_diskspace)
                  THEN "True"
             ELSE dfHasIssue(df, i + 1)

\* hasIssue: "True", "False", or the exception it ends in
hasIssue(server) ==
    LET cpu == summaryField(server, "cpu_usage_percent")
        mem == summaryField(server, "mem_usage_percent")
        disk == summaryField(server, "disk_usage_percent")
        err == FirstErr(<<cpu, mem, disk>>)
        last_data == GetItem(server, "last_data")
    IN  IF err # "" THEN err
        ELSE IF \/ cpu.v >= config.threshold_cpu_usage
                \/ mem.v >= config.threshold_mem_usage
                \/ disk.v >= config.threshold_disk_usage
             THEN "True"
        ELSE IF last_data.err # "" THEN last_data.err
        ELSE IF "df" \in DOMAIN last_data.v THEN dfHasIssue(last_data.v.df, 1)
        ELSE "False"

\* d[key][field] if key in d else 0
nestedField(d, key, field) ==
    IF key \in DOMAIN d THEN GetItem(d[key], field) ELSE Val(0)

\* d[key] if key in d else default
optionalField(d, key, default) == IF key \in DOMAIN d THEN d[key] ELSE default

\* the tags column: the tags joined with ', '
RECURSIVE joinTags(_, _)
joinTags(tags, i) ==
    IF i > Len(tags) THEN ""
    ELSE IF i = 1 THEN tags[1] \o joinTags(tags, 2)
    ELSE ", " \o tags[i] \o joinTags(tags, i + 1)

\* the loop of print over last_data['df'], from mount i on: the entries of
\* the disk info column (the percentage as printed, the mount, whether it is
\* highlighted), or the exception the loop ends in
RECURSIVE diskInfo(_, _)
diskInfo(df, i) ==
    IF i > Len(df) THEN [err |-> "", v |-> << >>]
    ELSE LET free == GetItem(df[i], "free_bytes")
             used == GetItem(df[i], "used_bytes")
             mount == GetItem(df[i], "mount")
             rest == diskInfo(df, i + 1)
         IN  IF free.err # "" THEN Raise(free.err)
             ELSE IF used.err # "" THEN Raise(used.err)
             ELSE IF free.v + used.v = 0 THEN Raise("ZeroDivisionError")
             ELSE IF mount.err # "" THEN Raise(mount.err)
             ELSE IF rest.err # "" THEN Raise(rest.err)
             ELSE LET pct == FreePercent(free.v, free.v + used.v)
                  IN  Val(<<[free |-> FormatF0(pct), mount |-> mount.v,
                             fail |-> FLessEq(pct, config.threshold_free_diskspace)]>>
                          \o rest.v)

\* print: err the exception it ends in ("" when it returns), acc whether it
\* got as far as adding to the sums, cpu, mem and disk what it added, row
\* what it emitted
print(server) ==
    IF format = "json"
    THEN [err |-> "", acc |-> FALSE, cpu |-> 0, mem |-> 0, disk |-> 0,
          row |-> [fmt |-> "json", server |-> server]]
    ELSE
    LET id == GetItem(server, "id")
        name == GetItem(server, "name")
        last == GetItem(server, "last_data")
        last_data == IF last.err = "" THEN last.v ELSE EmptyDict
        cpu == summaryField(server, "cpu_usage_percent")
        mem == summaryField(server, "mem_usage_percent")
        disk == summaryField(server, "disk_usage_percent")
        ip_whois == optionalField(server, "ip_whois", EmptyDict)
        before == FirstErr(<<id, name, last,
                             nestedField(last_data, "uptime", "seconds"),
                             nestedField(last_data, "memory", "used"),
                             nestedField(last_data, "memory", "free"),
                             nestedField(last_data, "memory", "available"),
                             nestedField(last_data, "memory", "total"),
                             cpu, mem, disk>>)
        info == IF "df" \in DOMAIN last_data THEN diskInfo(last_data.df, 1)
                ELSE Val(<< >>)
        fail == {c \in {"cpu", "mem", "disk"} :
                    \/ c = "cpu" /\ cpu.v >= config.threshold_cpu_usage
                    \/ c = "mem" /\ mem.v >= config.threshold_mem_usage
                    \/ c = "disk" /\ disk.v >= config.threshold_disk_usage}
        row == [fmt |-> format, id |-> id.v, name |-> name.v,
                ip_address |-> optionalField(ip_whois, "ip", ""),
                status |-> optionalField(server, "status", ""),
                os |-> optionalField(server, "os", ""),
                cpu |-> cpu.v, mem |-> mem.v, disk |-> disk.v,
                fail |-> IF format = "table" THEN fail ELSE {},
                disk_info |-> info.v,
                tags |-> joinTags(optionalField(server, "tags", << >>), 1)]
    IN  IF before # ""
        THEN [err |-> before, acc |-> FALSE, cpu |-> 0, mem |-> 0, disk |-> 0,
              row |-> NoArgs]
        ELSE IF info.err # ""
        THEN [err |-> info.err, acc |-> TRUE, cpu |-> cpu.v, mem |-> mem.v,
              disk |-> disk.v, row |-> NoArgs]
        ELSE [err |-> "", acc |-> TRUE, cpu |-> cpu.v, mem |-> mem.v,
              disk |-> disk.v, row |-> row]

\* the tag filter of list's loop
matchesTags(server, tags) ==
    \/ Len(tags) = 0
    \/ /\ "tags" \in DOMAIN server
       /\ \A i \in 1..Len(tags) : InList(tags[i], server.tags)

\* one pass of list's loop: "skip", "print", or the exception hasIssue
\* ends in
loopStep(server, issuesOnly, tags) ==
    IF ~matchesTags(server, tags) THEN "skip"
    ELSE IF ~issuesOnly THEN "print"
    ELSE LET issue == hasIssue(server)
         IN  IF issue = "True" THEN "print"
             ELSE IF issue = "False" THEN "skip"
             ELSE issue

\* sum / num_servers without the guard (a variant the footer property has
\* to tell from average)
averageUnguarded(sum, n) == [num |-> sum, den |-> n]

\* sum / num_servers if sum > 0 and num_servers > 0 else 0, as a fraction
average(sum, n) ==
    IF sum > 0 /\ n > 0 THEN [num |-> sum, den |-> n] ELSE [num |-> 0, den |-> 1]

\* printHeader without the reset of the aggregate state in lines 143-146 (a
\* variant the aggregate property has to tell from printHeader)
printHeaderKeepingSums ==
    [out |-> IF format = "csv" THEN <<Line("header", 0)>> ELSE << >>,
     sum_cpu_usage |-> sum_cpu_usage, sum_mem_usage |-> sum_mem_usage,
     sum_disk_usage |-> sum_disk_usage, num_servers |-> num_servers]

\* printHeader: the csv header line, and the aggregate state reset
printHeader ==
    [out |-> IF format = "csv" THEN <<Line("header", 0)>> ELSE << >>,
     sum_cpu_usage |-> 0, sum_mem_usage |-> 0, sum_disk_usage |-> 0,
     num_servers |-> 0]

\* the 'Average of N servers' row printFooter adds to the table
footerRow ==
    LET avg_cpu == average(sum_cpu_usage, num_servers)
        avg_mem == average(sum_mem_usage, num_servers)
        avg_disk == average(sum_disk_usage, num_servers)
    IN  [n |-> num_servers, cpu |-> avg_cpu, mem |-> avg_mem, disk |-> avg_disk,
         fail |-> {c \in {"cpu", "mem", "disk"} :
            \/ c = "cpu" /\ avg_cpu.num >= config.threshold_cpu_usage * avg_cpu.den
            \/ c = "mem" /\ avg_mem.num >= config.threshold_mem_usage * avg_mem.den
            \/ c = "disk" /\ avg_disk.num >= config.threshold_disk_usage * avg_disk.den}]

---------------------------------------------------------------------------
(* src/lib/servers.py: the methods of the older class.                     *)

\* fetch_data, the API answering the GET with `status`
fetch_data(status) ==
    IF servers # None
    THEN [ret |-> TRUE, servers |-> servers, reqs |-> << >>, out |-> << >>]
    ELSE IF status = 200
    THEN [ret |-> TRUE, servers |-> Some(remote), reqs |-> <<Get(status)>>,
          out |-> << >>]
    ELSE [ret |-> FALSE, servers |-> None, reqs |-> <<Get(status)>>,
          out |-> <<Line("error", status)>>]

\* the loop of the older print over last_data["df"], from mount i on
RECURSIVE libDiskInfo(_, _)
libDiskInfo(df, i) ==
    IF i > Len(df) THEN [err |-> "", v |-> << >>]
    ELSE LET free == GetItem(df[i], "free_bytes")
             used == GetItem(df[i], "used_bytes")
             mount == GetItem(df[i], "mount")
             rest == libDiskInfo(df, i + 1)
         IN  IF free.err # "" THEN Raise(free.err)
             ELSE IF used.err # "" THEN Raise(used.err)
             ELSE IF free.v + used.v = 0 THEN Raise("ZeroDivisionError")
             ELSE IF mount.err # "" THEN Raise(mount.err)
             ELSE IF rest.err # "" THEN Raise(rest.err)
             ELSE Val(<<[free |-> FormatF0(FreePercent(free.v, free.v + used.v)),
                         mount |-> mount.v]>> \o rest.v)

\* the older print: the exception it ends in, or the row it emitted
libPrint(server) ==
    LET name == GetItem(server, "name")
        os == GetItem(server, "os")
        last == GetItem(server, "last_data")
        df == GetItem(IF last.err = "" THEN last.v ELSE EmptyDict, "df")
        before == FirstErr(<<name, os, last, df>>)
        info == libDiskInfo(df.v, 1)
    IN  IF before # "" THEN [err |-> before, row |-> NoArgs]
        ELSE IF info.err # "" THEN [err |-> info.err, row |-> NoArgs]
        ELSE IF format \in {"table", "csv"}
        THEN [err |-> "", row |-> [fmt |-> format, name |-> name.v, os |-> os.v,
                                   disk_info |-> info.v]]
        ELSE [err |-> "", row |-> [fmt |-> "json", server |-> server]]

\* a loop of the older class over the servers from i on, printing every
\* server (list) or those the pattern matches (get): the rows emitted and
\* the exception that ended the loop
RECURSIVE libLoop(_, _, _, _)
libLoop(list, i, filtered, pattern) ==
    IF i > Len(list) THEN [err |-> "", rows |-> << >>]
    ELSE IF filtered /\ ~matchesPattern(list[i], pattern)
    THEN libLoop(list, i + 1, filtered, pattern)
    ELSE LET p == libPrint(list[i])
             rest == libLoop(list, i + 1, filtered, pattern)
         IN  IF p.err # "" THEN [err |-> p.err, rows |-> << >>]
             ELSE [err |-> rest.err, rows |-> <<p.row>> \o rest.rows]

\* for server in self.servers, self.servers being None or a list
libIterate(cached, filtered, pattern) ==
    IF cached = None THEN [err |-> "TypeError", rows |-> << >>]
    ELSE libLoop(cached[1], 1, filtered, pattern)

---------------------------------------------------------------------------
(* The state machine.  One Servers object of either class; pc is where     *)
(* list's loop stands ("idle" between calls, "rows" inside the loop).      *)
(* reqs, out and rows are the requests sent, the lines reported and the    *)
(* rows emitted by the call in progress or, between calls, the last call;  *)
(* ret is what that call returned or the exception it ended in.            *)

Init ==
    /\ impl \in {"cli", "lib"}
    /\ config \in (IF impl = "cli" THEN Configs ELSE {LibConfig})
    /\ remote \in ServerLists
    /\ servers = None
    /\ format = "table"
    /\ sum_cpu_usage = 0
    /\ sum_mem_usage = 0
    /\ sum_disk_usage = 0
    /\ num_servers = 0
    /\ pc = "idle"
    /\ idx = 0
    /\ args = NoArgs
    /\ rows = << >>
    /\ reqs = << >>
    /\ out = << >>
    /\ ret = "None"
    /\ op = "init"

\* the caller sets the output format between two calls
SetFormat ==
    /\ pc = "idle"
    /\ \E f \in Formats \ {format} : format' = f
    /\ op' = "format"
    /\ args' = NoArgs
    /\ idx' = 0
    /\ rows' = << >>
    /\ reqs' = << >>
    /\ out' = << >>
    /\ ret' = "None"
    /\ UNCHANGED <<impl, config, remote, servers, sum_cpu_usage, sum_mem_usage,
                   sum_disk_usage, num_servers, pc>>

\* a call of fetchData
FetchData ==
    /\ pc = "idle"
    /\ impl = "cli"
    /\ \E status \in Statuses :
         LET f == fetchData(status)
         IN  /\ servers' = f.servers
             /\ reqs' = f.reqs
             /\ out' = f.out
             /\ ret' = PyBool(f.ret)
    /\ op' = "fetchData"
    /\ args' = NoArgs
    /\ idx' = 0
    /\ rows' = << >>
    /\ UNCHANGED <<impl, config, remote, format, sum_cpu_usage, sum_mem_usage,
                   sum_disk_usage, num_servers, pc>>

\* a call of setTags
SetTags ==
    /\ pc = "idle"
    /\ impl = "cli"
    /\ \E pattern \in Patterns, tags \in NewTags, getStatus \in Statuses,
          putStatus \in Statuses :
         LET r == setTags(pattern, tags, getStatus, putStatus)
         IN  /\ servers' = r.servers
             /\ reqs' = r.reqs
             /\ out' = r.out
             /\ ret' = r.ret
             /\ args' = [call |-> "setTags", pattern |-> pattern, tags |-> tags]
    /\ op' = "setTags"
    /\ idx' = 0
    /\ rows' = << >>
    /\ UNCHANGED <<impl, config, remote, format, sum_cpu_usage, sum_mem_usage,
                   sum_disk_usage, num_servers, pc>>

\* a call of hasIssue on a server of the fetched list
HasIssue ==
    /\ pc = "idle"
    /\ impl = "cli"
    /\ servers # None
    /\ \E i \in 1..Len(servers[1]) :
         /\ idx' = i
         /\ ret' = hasIssue(servers[1][i])
    /\ op' = "hasIssue"
    /\ args' = NoArgs
    /\ rows' = << >>
    /\ reqs' = << >>
    /\ out' = << >>
    /\ UNCHANGED <<impl, config, remote, servers, format, sum_cpu_usage,
                   sum_mem_usage, sum_disk_usage, num_servers, pc>>

\* list up to its loop: fetchData, and printHeader when it returned True
ListBegin ==
    /\ pc = "idle"
    /\ impl = "cli"
    /\ \E issuesOnly \in BOOLEAN, tags \in TagFilters, status \in Statuses :
         LET f == fetchData(status)
         IN  /\ servers' = f.servers
             /\ reqs' = f.reqs
             /\ args' = [call |-> "list", issuesOnly |-> issuesOnly, tags |-> tags]
             /\ IF f.ret
                THEN /\ out' = f.out \o printHeader.out
                     /\ sum_cpu_usage' = printHeader.sum_cpu_usage
                     /\ sum_mem_usage' = printHeader.sum_mem_usage
                     /\ sum_disk_usage' = printHeader.sum_disk_usage
                     /\ num_servers' = printHeader.num_servers
                     /\ pc' = "rows"
                     /\ idx' = 1
                     /\ ret' = "running"
                ELSE /\ out' = f.out
                     /\ idx' = 0
                     /\ ret' = "None"
                     /\ UNCHANGED <<sum_cpu_usage, sum_mem_usage, sum_disk_usage,
                                    num_servers, pc>>
    /\ op' = "list"
    /\ rows' = << >>
    /\ UNCHANGED <<impl, config, remote, format>>

\* one pass of list's loop
ListRow ==
    /\ pc = "rows"
    /\ idx <= Len(servers[1])
    /\ LET server == servers[1][idx]
           step == loopStep(server, args.issuesOnly, args.tags)
           p == print(server)
       IN  IF step = "skip"
           THEN /\ idx' = idx + 1
                /\ UNCHANGED <<sum_cpu_usage, sum_mem_usage, sum_disk_usage,
                               num_servers, pc, rows, ret>>
           ELSE IF step # "print"
           THEN /\ pc' = "idle"
                /\ ret' = step
                /\ UNCHANGED <<sum_cpu_usage, sum_mem_usage, sum_disk_usage,
                               num_servers, idx, rows>>
           ELSE /\ IF p.acc
                   THEN /\ sum_cpu_usage' = sum_cpu_usage + p.cpu
                        /\ sum_mem_usage' = sum_mem_usage + p.mem
                        /\ sum_disk_usage' = sum_disk_usage + p.disk
                        /\ num_servers' = num_servers + 1
                   ELSE UNCHANGED <<sum_cpu_usage, sum_mem_usage, sum_disk_usage,
                                    num_servers>>
                /\ IF p.err = ""
                   THEN /\ rows' = Append(rows, p.row)
                        /\ idx' = idx + 1
                        /\ UNCHANGED <<pc, ret>>
                   ELSE /\ pc' = "idle"
                        /\ ret' = p.err
                        /\ UNCHANGED <<idx, rows>>
    /\ UNCHANGED <<impl, config, remote, servers, format, args, reqs, out, op>>

\* the end of list: printFooter
ListFooter ==
    /\ pc = "rows"
    /\ idx > Len(servers[1])
    /\ out' = IF format = "table" THEN Append(out, Line("footer", footerRow))
              ELSE out
    /\ pc' = "idle"
    /\ ret' = "None"
    /\ UNCHANGED <<impl, config, remote, servers, format, sum_cpu_usage,
                   sum_mem_usage, sum_disk_usage, num_servers, idx, args, rows,
                   reqs, op>>

\* a call of the older fetch_data
LibFetchData ==
    /\ pc = "idle"
    /\ impl = "lib"
    /\ \E status \in Statuses :
         LET f == fetch_data(status)
         IN  /\ servers' = f.servers
             /\ reqs' = f.reqs
             /\ out' = f.out
             /\ ret' = PyBool(f.ret)
    /\ op' = "fetchData"
    /\ args' = NoArgs
    /\ rows' = << >>
    /\ UNCHANGED <<impl, config, remote, format, sum_cpu_usage, sum_mem_usage,
                   sum_disk_usage, num_servers, pc, idx>>

\* a call of the older list
LibList ==
    /\ pc = "idle"
    /\ impl = "lib"
    /\ \E status \in Statuses :
         LET f == fetch_data(status)
             loop == libIterate(f.servers, FALSE, "")
             header == IF format = "csv" THEN <<Line("header", 0)>> ELSE << >>
             footer == IF loop.err = "" /\ format = "table"
                       THEN <<Line("table", 0)>> ELSE << >>
         IN  /\ servers' = f.servers
             /\ reqs' = f.reqs
             /\ out' = f.out \o header \o footer
             /\ rows' = loop.rows
             /\ ret' = IF loop.err = "" THEN "None" ELSE loop.err
    /\ op' = "list"
    /\ args' = NoArgs
    /\ UNCHANGED <<impl, config, remote, format, sum_cpu_usage, sum_mem_usage,
                   sum_disk_usage, num_servers, pc, idx>>

\* a call of the older get
LibGet ==
    /\ pc = "idle"
    /\ impl = "lib"
    /\ \E pattern \in Patterns, status \in Statuses :
         LET f == fetch_data(status)
             loop == libIterate(f.servers, TRUE, pattern)
         IN  /\ args' = [call |-> "get", pattern |-> pattern]
             /\ IF pattern = ""
                THEN /\ rows' = << >>
                     /\ reqs' = << >>
                     /\ out' = << >>
                     /\ ret' = "None"
                     /\ UNCHANGED servers
                ELSE /\ servers' = f.servers
                     /\ reqs' = f.reqs
                     /\ out' = f.out
                     /\ rows' = loop.rows
                     /\ ret' = IF loop.err = "" THEN "None" ELSE loop.err
    /\ op' = "get"
    /\ UNCHANGED <<impl, config, remote, format, sum_cpu_usage, sum_mem_usage,
                   sum_disk_usage, num_servers, pc, idx>>

Next ==
    \/ SetFormat
    \/ FetchData
    \/ SetTags
    \/ HasIssue
    \/ ListBegin
    \/ ListRow
    \/ ListFooter
    \/ LibFetchData
    \/ LibList
    \/ LibGet

Spec == Init /\ [][Next]_vars

---------------------------------------------------------------------------
(* The properties.  What the specification says of a server is stated here *)
(* on its own, in exact arithmetic, and compared with what the methods do. *)

IsGet(r) == r.method = "GET"
IsPut(r) == r.method = "PUT"
Puts == SelectSeq(reqs, IsPut)
Gets == SelectSeq(reqs, IsGet)
Reported(kind) == \E i \in 1..Len(out) : out[i].kind = kind

\* the pattern equals the id exactly or is a substring of the name
SpecMatchesPattern(server, pattern) ==
    \/ pattern = server.id
    \/ \E i \in 1..Len(server.name), j \in 1..Len(server.name) :
          SubSeq(server.name, i, j) = pattern

\* every required tag is among the server's tags
SpecMatchesTags(server, tags) ==
    \A t \in {tags[i] : i \in 1..Len(tags)} :
        /\ "tags" \in DOMAIN server
        /\ t \in {server.tags[i] : i \in 1..Len(server.tags)}

\* a usage percentage of the summary, zero when it is absent
SpecUsage(server, field) ==
    IF "summary" \in DOMAIN server /\ field \in DOMAIN server.summary
    THEN server.summary[field] ELSE 0

\* the mounts of a server, none when df is absent
SpecMounts(server) ==
    IF "df" \in DOMAIN server.last_data
    THEN {server.last_data.df[i] : i \in 1..Len(server.last_data.df)}
    ELSE {}

\* at least one of the four comparisons trips; free / (free + used) * 100 <=
\* threshold is taken exactly, as free * 100 <= threshold * (free + used)
SpecTrips(server) ==
    \/ SpecUsage(server, "cpu_usage_percent") >= config.threshold_cpu_usage
    \/ SpecUsage(server, "mem_usage_percent") >= config.threshold_mem_usage
    \/ SpecUsage(server, "disk_usage_percent") >= config.threshold_disk_usage
    \/ \E m \in SpecMounts(server) :
          /\ m.free_bytes + m.used_bytes > 0
          /\ m.free_bytes * 100 <=
                config.threshold_free_diskspace * (m.free_bytes + m.used_bytes)

RowId(row) == IF row.fmt = "json" THEN row.server.id ELSE row.id
RowIds == [i \in 1..Len(rows) |-> RowId(rows[i])]

\* the ids of the servers list is to emit, in the order of the fetched list
RECURSIVE SelectedIds(_, _, _, _)
SelectedIds(list, i, issuesOnly, tags) ==
    IF i > Len(list) THEN << >>
    ELSE (IF /\ SpecMatchesTags(list[i], tags)
             /\ (~issuesOnly \/ hasIssue(list[i]) = "True")
          THEN <<list[i].id>> ELSE << >>)
         \o SelectedIds(list, i + 1, issuesOnly, tags)

\* the total of a usage percentage over the servers emitted as rows
RECURSIVE RowsTotal(_, _)
RowsTotal(field, i) ==
    IF i > Len(rows) THEN 0
    ELSE LET server == CHOOSE s \in {servers[1][k] : k \in 1..Len(servers[1])} :
                           s.id = RowId(rows[i])
         IN  SpecUsage(server, field) + RowsTotal(field, i + 1)

\* list's loop has run to its end and printFooter is next
FooterReached == pc = "rows" /\ idx > Len(servers[1])

\* setTags got as far as calling update
UpdateReached ==
    /\ op = "setTags"
    /\ args.pattern # ""
    /\ Len(args.tags) > 0
    /\ servers # None
    /\ \E i \in 1..Len(servers[1]) : SpecMatchesPattern(servers[1][i], args.pattern)

\* the call in progress (or the last call) was answered a GET with a status
\* other than 200
FailedGet == \E i \in 1..Len(reqs) : IsGet(reqs[i]) /\ reqs[i].status # 200

(* C1: once the server list is cached (fetchData has returned True), no    *)
(* step of fetchData, list or setTags sends a GET or changes the cached    *)
(* list.                                                                   *)
C1_CachedNoRefetch ==
    [][servers # None =>
          /\ servers' = servers
          /\ pc = "idle" => Len(SelectSeq(reqs', IsGet)) = 0
          /\ pc # "idle" => reqs' = reqs]_vars

\* a call of fetchData answered from the cache
C1_Witness ==
    /\ op = "fetchData"
    /\ ret = "True"
    /\ servers # None
    /\ reqs = << >>

(* C2: with config.readonly set, no call sends a PUT, and whenever setTags *)
(* gets as far as update, update returns False.                            *)
C2_ReadonlyBlocksPut ==
    config.readonly =>
        /\ Len(Puts) = 0
        /\ UpdateReached => ret = "False"

C2_Witness == config.readonly /\ UpdateReached /\ ret = "False" /\ Len(Puts) = 0

(* C3: hasIssue returns True if and only if at least one of the four       *)
(* comparisons trips, both boundaries inclusive.                           *)
C3_HasIssueIffTrips ==
    (op = "hasIssue" /\ ret \in {"True", "False"}) =>
        (ret = "True" <=> SpecTrips(servers[1][idx]))

(* C4: after a successful fetch, list emits a row for exactly the servers  *)
(* that carry every required tag and, with issuesOnly, have an issue, in   *)
(* the order of the fetched list, each once.                               *)
C4_ListEmitsSelected ==
    (impl = "cli" /\ op = "list" /\ pc = "idle" /\ servers # None) =>
        RowIds = SelectedIds(servers[1], 1, args.issuesOnly, args.tags)

(* C5: a setTags call sends at most one PUT, only with the list fetched    *)
(* and tags non-empty; its target is the id of the first server of the     *)
(* list the pattern matches, and its body the given tags.                  *)
C5_OnePutFirstMatch ==
    op = "setTags" =>
        /\ Len(Puts) <= 1
        /\ Len(Puts) = 1 =>
              /\ servers # None
              /\ Len(args.tags) > 0
              /\ IsPut(reqs[Len(reqs)])
              /\ Puts[1].body = args.tags
              /\ \E i \in 1..Len(servers[1]) :
                    /\ SpecMatchesPattern(servers[1][i], args.pattern)
                    /\ \A j \in 1..(i - 1) :
                          ~SpecMatchesPattern(servers[1][j], args.pattern)
                    /\ Puts[1].target = servers[1][i].id

\* a PUT was sent although a later server matches the pattern too
C5_Witness ==
    /\ op = "setTags"
    /\ Len(Puts) = 1
    /\ \E i, j \in 1..Len(servers[1]) :
          /\ i < j
          /\ Puts[1].target = servers[1][i].id
          /\ SpecMatchesPattern(servers[1][j], args.pattern)

(* C6: when the GET is answered with a status other than 200, the error is *)
(* reported with the status, nothing is cached, the GET is not repeated,   *)
(* list emits no header, row or footer and raises no exception, and        *)
(* setTags sends no PUT.                                                   *)
C6_FailedFetchAborts ==
    (pc = "idle" /\ FailedGet) =>
        /\ servers = None
        /\ Len(Gets) = 1
        /\ Len(Puts) = 0
        /\ out[1] = Line("error", Gets[1].status)
        /\ op = "list" =>
              /\ out = <<Line("error", Gets[1].status)>>
              /\ rows = << >>
              /\ ret = "None"

(* C7: setTags with a pattern and tags, the list fetched and no server     *)
(* matching the pattern, reports the warning, sends no PUT and returns.    *)
C7_NoMatchWarns ==
    (/\ op = "setTags"
     /\ args.pattern # ""
     /\ Len(args.tags) > 0
     /\ servers # None
     /\ \A i \in 1..Len(servers[1]) :
           ~SpecMatchesPattern(servers[1][i], args.pattern)) =>
        /\ Reported("warn")
        /\ Len(Puts) = 0
        /\ ret = "None"

\* no server matches although the pattern is part of a server's id
C7_Witness ==
    /\ op = "setTags"
    /\ args.pattern # ""
    /\ Len(args.tags) > 0
    /\ servers # None
    /\ \A i \in 1..Len(servers[1]) :
          ~SpecMatchesPattern(servers[1][i], args.pattern)
    /\ \E i \in 1..Len(servers[1]) : Contains(servers[1][i].id, args.pattern)
    /\ Reported("warn")

(* C8: hasIssue and print never end in an error for a server that lacks    *)
(* optional fields: no call of hasIssue or list ends in a KeyError.        *)
C8_MissingFieldsNoError ==
    (impl = "cli" /\ op \in {"hasIssue", "list"}) => ret # "KeyError"

\* sum / n when both are greater than zero, 0 otherwise
IsAverage(avg, sum, n) ==
    /\ avg.den # 0
    /\ IF sum > 0 /\ n > 0 THEN avg.num * n = sum * avg.den ELSE avg.num = 0

(* C9: each average of the footer is its sum divided by the number of      *)
(* servers when both are greater than zero, and 0 otherwise.               *)
C9_FooterAverages ==
    \A i \in 1..Len(out) :
        out[i].kind = "footer" =>
            /\ out[i].v.n = num_servers
            /\ IsAverage(out[i].v.cpu, sum_cpu_usage, num_servers)
            /\ IsAverage(out[i].v.mem, sum_mem_usage, num_servers)
            /\ IsAverage(out[i].v.disk, sum_disk_usage, num_servers)

\* a footer over two servers with sums greater than zero
C9_Witness ==
    /\ Reported("footer")
    /\ num_servers = 2
    /\ sum_cpu_usage > 0
    /\ sum_mem_usage > 0
    /\ sum_disk_usage > 0

\* the aggregate state is that of the rows of this pass
AggregatesMatchRows ==
    /\ num_servers = Len(rows)
    /\ sum_cpu_usage = RowsTotal("cpu_usage_percent", 1)
    /\ sum_mem_usage = RowsTotal("mem_usage_percent", 1)
    /\ sum_disk_usage = RowsTotal("disk_usage_percent", 1)

=============================================================================
